---- MODULE Spec2Model ----
(***************************************************************************)
(* Model of pyrometer's context builder (src/context/mod.rs): the          *)
(* statement-to-graph transformer parse_ctx_statement, the expression      *)
(* dispatcher parse_ctx_expr, the versioning protocol assign/advance_var   *)
(* and the scope queries var_by_name / latest_var_by_name / new_tmp.       *)
(*                                                                         *)
(* The graph is an arena: `nodes` is the node store (NodeIdx i of the      *)
(* source is position i+1 here) and `edges` the edge store in insertion    *)
(* order.  A handler is one action; the recursion over the AST is a        *)
(* RECURSIVE operator threading the graph record G through every call.     *)
(***************************************************************************)
EXTENDS Integers, Sequences, FiniteSets, TLC

VARIABLES nodes, edges, builtins, aborted, trace, last, steps

vars == <<nodes, edges, builtins, aborted, trace, last, steps>>

-----------------------------------------------------------------------------
(* Bounds of the exploration. *)

\* number of top-level builder calls explored from the initial graph
MaxSteps == 2

\* largest node store explored
MaxNodes == 14

-----------------------------------------------------------------------------
(* Option::None for node ids, names and locations. *)

None == 0

NoName == ""

NoPanic == ""

-----------------------------------------------------------------------------
(* Range bounds (range::RangeElem).  One record shape for all variants:    *)
(*   NoElem                      the bound is absent (range() is None)     *)
(*   Concrete(v)                 a concrete bound                          *)
(*   Dynamic(idx, side, loc)     deferred bound: node, Min/Max, location   *)
(*   OpElem(idx, side, loc, op)  bound computed by the arithmetic handler  *)

NoElem == [t |-> "None", idx |-> None, side |-> "", loc |-> None, val |-> ""]

Concrete(v) == [t |-> "Concrete", idx |-> None, side |-> "", loc |-> None, val |-> v]

Dynamic(idx, side, loc) == [t |-> "Dynamic", idx |-> idx, side |-> side, loc |-> loc, val |-> ""]

OpElem(idx, side, loc, op) == [t |-> "Op", idx |-> idx, side |-> side, loc |-> loc, val |-> op]

-----------------------------------------------------------------------------
(* Nodes.  One record shape for every Node variant. *)

MkNode(kind, name, loc) ==
    [kind |-> kind, name |-> name, loc |-> loc,
     min |-> NoElem, max |-> NoElem, tmp_var_ctr |-> 0]

\* Context::new(loc): counter 0, the block's location
Context_new(loc) == MkNode("Context", NoName, loc)

\* a ContextVar with no known range
ContextVar(name, loc) == MkNode("ContextVar", name, loc)

MkEdge(src, dst, w) == [src |-> src, dst |-> dst, w |-> w]

(* The analyzer state threaded through a handler: the graph, the builtin   *)
(* table, the panic (if the call aborted) and the events of the call.      *)
MkG(n, e, b, p, t) == [nodes |-> n, edges |-> e, builtins |-> b, panic |-> p, trace |-> t]

\* result of an expression handler: the state and the Vec<NodeIdx>
R(G, res) == [g |-> G, res |-> res]

\* panic!/todo!/index-out-of-bounds: the call stops, the graph stays as it is
Panic(G, what) == [G EXCEPT !.panic = what]

Event(ev, loc, a, b, c, flag) == [ev |-> ev, loc |-> loc, a |-> a, b |-> b, c |-> c, flag |-> flag]

Log(G, e) == [G EXCEPT !.trace = Append(@, e)]

-----------------------------------------------------------------------------
(* Graph substrate (petgraph, used through AnalyzerLike). *)

\* add_node: the new node's id is the store's new length
add_node(G, n) == [G EXCEPT !.nodes = Append(@, n)]

NewIdx(G) == Len(G.nodes) + 1

add_edge(G, src, dst, w) == [G EXCEPT !.edges = Append(@, MkEdge(src, dst, w))]

Reverse(s) == [i \in 1..Len(s) |-> s[Len(s) + 1 - i]]

\* edges_directed(n, Incoming): petgraph iterates a node's edges newest first
edges_directed_incoming(G, n) == SelectSeq(Reverse(G.edges), LAMBDA e : e.dst = n)

\* ... .filter(|edge| *edge.weight() == w).map(|edge| edge.source())
IncomingSources(G, n, w) ==
    LET es == SelectSeq(edges_directed_incoming(G, n), LAMBDA e : e.w = w)
    IN  [i \in 1..Len(es) |-> es[i].src]

-----------------------------------------------------------------------------
(* ContextNode queries. *)

\* vars without the filter on the edge tag: every incoming edge's source
ctx_vars_any_edge(G, ctx) ==
    LET es == edges_directed_incoming(G, ctx)
    IN  [i \in 1..Len(es) |-> es[i].src]

\* ContextNode::vars: the sources of the Variable edges into the context
ctx_vars(G, ctx) == IncomingSources(G, ctx, "Variable")

\* ContextNode::var_by_name: the first Variable-edge source with that name
var_by_name(G, ctx, name) ==
    LET named == SelectSeq(ctx_vars(G, ctx), LAMBDA v : G.nodes[v].name = name)
    IN  IF named = <<>> THEN None ELSE named[1]

\* ContextVarNode::next_version: the first incoming Prev edge's source
next_version(G, v) ==
    LET nxt == IncomingSources(G, v, "Prev")
    IN  IF nxt = <<>> THEN None ELSE nxt[1]

RECURSIVE latest_version(_, _)
\* ContextVarNode::latest_version: walk to the most recent write
latest_version(G, v) ==
    IF next_version(G, v) = None THEN v ELSE latest_version(G, next_version(G, v))

\* latest_var_by_name returning the version the Variable edge names
latest_var_by_name_stale(G, ctx, name) ==
    IF var_by_name(G, ctx, name) # None
    THEN var_by_name(G, ctx, name)
    ELSE None

\* ContextNode::latest_var_by_name
latest_var_by_name(G, ctx, name) ==
    IF var_by_name(G, ctx, name) # None
    THEN latest_version(G, var_by_name(G, ctx, name))
    ELSE None

\* new_tmp returning the counter after the increment
new_tmp_post_increment(G, ctx) ==
    IF G.nodes[ctx].kind # "Context"
    THEN [g |-> Panic(G, "NodeKindMismatch"), ret |-> 0]
    ELSE [g   |-> Log([G EXCEPT !.nodes[ctx].tmp_var_ctr = @ + 1],
                      Event("new_tmp", None, ctx, G.nodes[ctx].tmp_var_ctr + 1, None, FALSE)),
          ret |-> G.nodes[ctx].tmp_var_ctr + 1]

\* ContextNode::new_tmp, with underlying_mut's kind check
new_tmp(G, ctx) ==
    IF G.nodes[ctx].kind # "Context"
    THEN [g |-> Panic(G, "NodeKindMismatch"), ret |-> 0]
    ELSE [g   |-> Log([G EXCEPT !.nodes[ctx].tmp_var_ctr = @ + 1],
                      Event("new_tmp", None, ctx, G.nodes[ctx].tmp_var_ctr, None, FALSE)),
          ret |-> G.nodes[ctx].tmp_var_ctr]

-----------------------------------------------------------------------------
(* Variable versioning and range propagation. *)

\* ContextVarNode::range: Some(range) once a bound has been installed
has_range(G, v) == G.nodes[v].min # NoElem \/ G.nodes[v].max # NoElem

\* ContextVarNode::set_range_min / set_range_max
set_range_min(G, v, elem) == [G EXCEPT !.nodes[v].min = elem]

set_range_max(G, v, elem) == [G EXCEPT !.nodes[v].max = elem]

\* advance_var linking the new version to itself instead of its predecessor
advance_var_self_link(G, cvar_node, loc) ==
    IF G.nodes[cvar_node].kind # "ContextVar"
    THEN [g |-> Panic(G, "NodeKindMismatch"), cvar |-> None]
    ELSE LET new_cvar     == [G.nodes[cvar_node] EXCEPT !.loc = loc]
             new_cvarnode == NewIdx(G)
         IN  [g    |-> add_edge(add_node(G, new_cvar), new_cvarnode, new_cvarnode, "Prev"),
              cvar |-> new_cvarnode]

\* advance_var overwriting the location of the existing version before cloning
advance_var_in_place(G, cvar_node, loc) ==
    IF G.nodes[cvar_node].kind # "ContextVar"
    THEN [g |-> Panic(G, "NodeKindMismatch"), cvar |-> None]
    ELSE LET g0           == [G EXCEPT !.nodes[cvar_node].loc = loc]
             new_cvarnode == NewIdx(G)
         IN  [g    |-> add_edge(add_node(g0, g0.nodes[cvar_node]),
                                new_cvarnode, cvar_node, "Prev"),
              cvar |-> new_cvarnode]

\* ContextBuilder::advance_var: clone, overwrite loc, insert, link new -> old
advance_var(G, cvar_node, loc) ==
    IF G.nodes[cvar_node].kind # "ContextVar"
    THEN [g |-> Panic(G, "NodeKindMismatch"), cvar |-> None]
    ELSE LET new_cvar     == [G.nodes[cvar_node] EXCEPT !.loc = loc]
             new_cvarnode == NewIdx(G)
         IN  [g    |-> add_edge(add_node(G, new_cvar), new_cvarnode, cvar_node, "Prev"),
              cvar |-> new_cvarnode]

\* assign: the bounds always deferred, whether or not the right-hand node has
\* a range
new_bounds_always_dynamic(G, rhs_cvar, loc) ==
    <<Dynamic(rhs_cvar, "Min", loc), Dynamic(rhs_cvar, "Max", loc)>>

\* assign: both bounds deferred to the right-hand node, tagged Min and Min
new_bounds_both_min(G, rhs_cvar, loc) ==
    IF has_range(G, rhs_cvar)
    THEN <<G.nodes[rhs_cvar].min, G.nodes[rhs_cvar].max>>
    ELSE <<Dynamic(rhs_cvar, "Min", loc), Dynamic(rhs_cvar, "Min", loc)>>

\* assign: the (min, max) to install: the right-hand node's range when it has
\* one, else a deferred range referencing the right-hand node
new_bounds(G, rhs_cvar, loc) ==
    IF has_range(G, rhs_cvar)
    THEN <<G.nodes[rhs_cvar].min, G.nodes[rhs_cvar].max>>
    ELSE <<Dynamic(rhs_cvar, "Min", loc), Dynamic(rhs_cvar, "Max", loc)>>

RECURSIVE parse_ctx_expr(_, _, _)

\* ContextBuilder::assign
assign(G, loc, lhs_expr, rhs_expr, ctx) ==
    LET l == parse_ctx_expr(G, lhs_expr, ctx) IN
    IF l.g.panic # NoPanic THEN R(l.g, <<>>)
    ELSE IF l.res = <<>> THEN R(Panic(l.g, "IndexOutOfBounds"), <<>>)
    ELSE
    LET lhs_cvar == l.res[1]
        r        == parse_ctx_expr(l.g, rhs_expr, ctx) IN
    IF r.g.panic # NoPanic THEN R(r.g, <<>>)
    ELSE IF r.res = <<>> THEN R(Panic(r.g, "IndexOutOfBounds"), <<>>)
    ELSE
    LET rhs_cvar == r.res[1] IN
    IF r.g.nodes[rhs_cvar].kind # "ContextVar" THEN R(Panic(r.g, "NodeKindMismatch"), <<>>)
    ELSE
    LET ranged          == has_range(r.g, rhs_cvar)
        new_lower_bound == new_bounds(r.g, rhs_cvar, loc)[1]
        new_upper_bound == new_bounds(r.g, rhs_cvar, loc)[2]
        adv             == advance_var(r.g, lhs_cvar, loc)
        new_lhs         == adv.cvar
    IN  IF adv.g.panic # NoPanic THEN R(adv.g, <<>>)
        ELSE R(Log(set_range_max(set_range_min(adv.g, new_lhs, new_lower_bound),
                                 new_lhs, new_upper_bound),
                   Event("assign", loc, lhs_cvar, rhs_cvar, new_lhs, ranged)),
               <<new_lhs>>)

-----------------------------------------------------------------------------
(* The AST (solang_parser::pt).  One record shape per syntactic class:     *)
(* an Expression is [k, loc, name, sub] with `sub` its operand list, a     *)
(* Statement is [k, loc, unchecked, expr, statements] with `expr` holding  *)
(* zero or one expression.                                                 *)

Ex(k, loc, name, sub) == [k |-> k, loc |-> loc, name |-> name, sub |-> sub]

St(k, loc, expr, statements) ==
    [k |-> k, loc |-> loc, unchecked |-> FALSE, expr |-> expr, statements |-> statements]

\* arms of parse_ctx_expr that go to op_expr with assign = false / true
ArithKinds == {"Add", "Subtract", "Multiply", "Divide", "Modulo"}

AssignArithKinds ==
    {"AssignAdd", "AssignSubtract", "AssignMultiply", "AssignDivide", "AssignModulo"}

\* arms of parse_ctx_expr that go to cmp
CmpKinds == {"Equal", "Less", "More", "LessEqual", "MoreEqual"}

\* the Op tag an arm passes on
OpOf(k) ==
    CASE k \in {"Add", "AssignAdd"}           -> "Op::Add"
      [] k \in {"Subtract", "AssignSubtract"} -> "Op::Sub"
      [] k \in {"Multiply", "AssignMultiply"} -> "Op::Mul"
      [] k \in {"Divide", "AssignDivide"}     -> "Op::Div"
      [] k \in {"Modulo", "AssignModulo"}     -> "Op::Mod"
      [] k = "Equal"                          -> "Op::Eq"
      [] k = "Less"                           -> "Op::Lt"
      [] k = "More"                           -> "Op::Gt"
      [] k = "LessEqual"                      -> "Op::Lte"
      [] k = "MoreEqual"                      -> "Op::Gte"

\* statement kinds whose arm is empty
NoOpKinds ==
    {"VariableDefinition", "Assembly", "Args", "If", "While", "For", "DoWhile",
     "Continue", "Break", "Revert", "RevertNamedArgs", "Emit", "Try", "Error"}

-----------------------------------------------------------------------------
(* Collaborators of the dispatcher (exprs/, var.rs, Builtin). *)

\* Builtin::try_from_ty: the builtin of an elementary type, None otherwise
try_from_ty(ty) ==
    CASE ty = "Type::Uint(256)" -> "Builtin::Uint(256)"
      [] ty = "Type::Bool"      -> "Builtin::Bool"
      [] ty = "Type::Address"   -> "Builtin::Address"
      [] OTHER                  -> NoName

Builtins == {"Builtin::Uint(256)", "Builtin::Bool", "Builtin::Address"}

\* the first Function node with that name
function_by_name(G, name) ==
    LET fs == {i \in 1..Len(G.nodes) : G.nodes[i].kind = "Function" /\ G.nodes[i].name = name}
    IN  IF fs = {} THEN None ELSE CHOOSE i \in fs : \A j \in fs : i <= j

\* exprs: identifier lookup, the scope's latest version first, then functions
variable(G, ident, ctx) ==
    IF latest_var_by_name(G, ctx, ident.name) # None
    THEN R(G, <<latest_var_by_name(G, ctx, ident.name)>>)
    ELSE IF function_by_name(G, ident.name) # None
    THEN R(G, <<function_by_name(G, ident.name)>>)
    ELSE R(Panic(G, "UnresolvedIdentifier"), <<>>)

\* exprs: a literal is a ContextVar with a constant range
number_literal(G, loc, int) ==
    LET lit == [ContextVar(int, loc) EXCEPT !.min = Concrete(int), !.max = Concrete(int)]
    IN  R(add_node(G, lit), <<NewIdx(G)>>)

\* exprs: the arithmetic handler.  Both operands are evaluated, left first;
\* the compound form writes the left operand through advance_var, the pure
\* form mints a temporary of the context.
op_expr(G, loc, lhs_expr, rhs_expr, ctx, op, is_assign) ==
    LET l == parse_ctx_expr(G, lhs_expr, ctx) IN
    IF l.g.panic # NoPanic THEN R(l.g, <<>>)
    ELSE IF l.res = <<>> THEN R(Panic(l.g, "IndexOutOfBounds"), <<>>)
    ELSE
    LET lhs_cvar == l.res[1]
        r        == parse_ctx_expr(l.g, rhs_expr, ctx) IN
    IF r.g.panic # NoPanic THEN R(r.g, <<>>)
    ELSE IF r.res = <<>> THEN R(Panic(r.g, "IndexOutOfBounds"), <<>>)
    ELSE
    LET rhs_cvar == r.res[1] IN
    IF r.g.nodes[lhs_cvar].kind # "ContextVar" \/ r.g.nodes[rhs_cvar].kind # "ContextVar"
    THEN R(Panic(r.g, "NodeKindMismatch"), <<>>)
    ELSE IF is_assign
    THEN LET adv == advance_var(r.g, lhs_cvar, loc)
         IN  R(set_range_max(set_range_min(adv.g, adv.cvar,
                                           OpElem(rhs_cvar, "Min", loc, op)),
                             adv.cvar, OpElem(rhs_cvar, "Max", loc, op)),
               <<adv.cvar>>)
    ELSE LET t == new_tmp(r.g, ctx) IN
         IF t.g.panic # NoPanic THEN R(t.g, <<>>)
         ELSE LET tmp == [ContextVar("tmp", loc) EXCEPT
                              !.min = OpElem(rhs_cvar, "Min", loc, op),
                              !.max = OpElem(rhs_cvar, "Max", loc, op)]
              IN  R(add_node(t.g, tmp), <<NewIdx(t.g)>>)

\* exprs: the comparison handler mirrors the arithmetic one
cmp(G, loc, lhs_expr, op, rhs_expr, ctx) == op_expr(G, loc, lhs_expr, rhs_expr, ctx, op, FALSE)

RECURSIVE parse_exprs(_, _, _)
\* input_exprs.into_iter().map(|expr| self.parse_ctx_expr(expr, ctx)).collect()
parse_exprs(G, exprs, ctx) ==
    IF exprs = <<>> \/ G.panic # NoPanic THEN G
    ELSE parse_exprs(parse_ctx_expr(G, Head(exprs), ctx).g, Tail(exprs), ctx)

\* exprs: the assertion handler evaluates the condition for its graph effects
handle_require(G, input_exprs, ctx) == parse_exprs(G, input_exprs, ctx)

-----------------------------------------------------------------------------
(* The expression dispatcher. *)

\* the Type arm adding the node without registering it in the table
type_arm_unregistered(G, ty) ==
    IF try_from_ty(ty) # NoName
    THEN IF G.builtins[try_from_ty(ty)] # None
         THEN R(G, <<G.builtins[try_from_ty(ty)]>>)
         ELSE R(add_node(G, MkNode("Builtin", try_from_ty(ty), None)), <<NewIdx(G)>>)
    ELSE R(Panic(G, "todo"), <<>>)

\* the Type arm: the builtin interning table
type_arm(G, ty) ==
    IF try_from_ty(ty) # NoName
    THEN IF G.builtins[try_from_ty(ty)] # None
         THEN R(G, <<G.builtins[try_from_ty(ty)]>>)
         ELSE R([add_node(G, MkNode("Builtin", try_from_ty(ty), None))
                    EXCEPT !.builtins[try_from_ty(ty)] = NewIdx(G)],
                <<NewIdx(G)>>)
    ELSE R(Panic(G, "todo"), <<>>)

\* the FunctionCall arm without the early return of the special forms: after
\* the assertion handler it goes on to the arguments like any other call
function_call_falls_through(G, func_expr, input_exprs, ctx) ==
    LET f == parse_ctx_expr(G, func_expr, ctx) IN
    IF f.g.panic # NoPanic THEN R(f.g, <<>>)
    ELSE IF f.res = <<>> THEN R(Panic(f.g, "IndexOutOfBounds"), <<>>)
    ELSE
    LET func_idx == f.res[1] IN
    IF f.g.nodes[func_idx].kind # "Function" THEN R(Panic(f.g, "NodeKindMismatch"), <<>>)
    ELSE LET g1 == IF f.g.nodes[func_idx].name \in {"require", "assert"}
                   THEN handle_require(
                            Log(f.g, Event("handle_require", None, ctx, Len(input_exprs),
                                           None, FALSE)),
                            input_exprs, ctx)
                   ELSE f.g
             g2 == parse_exprs(g1, input_exprs, ctx)
         IN  IF g2.panic # NoPanic THEN R(g2, <<>>) ELSE R(g2, <<func_idx>>)

\* the FunctionCall arm; the hand-over to the assertion handler is recorded
\* with the number of arguments handed over
function_call(G, func_expr, input_exprs, ctx) ==
    LET f == parse_ctx_expr(G, func_expr, ctx) IN
    IF f.g.panic # NoPanic THEN R(f.g, <<>>)
    ELSE IF f.res = <<>> THEN R(Panic(f.g, "IndexOutOfBounds"), <<>>)
    ELSE
    LET func_idx == f.res[1] IN
    IF f.g.nodes[func_idx].kind # "Function" THEN R(Panic(f.g, "NodeKindMismatch"), <<>>)
    ELSE IF f.g.nodes[func_idx].name \in {"require", "assert"}
    THEN R(handle_require(
               Log(f.g, Event("handle_require", None, ctx, Len(input_exprs), None, FALSE)),
               input_exprs, ctx), <<>>)
    ELSE LET g2 == parse_exprs(f.g, input_exprs, ctx)
         IN  IF g2.panic # NoPanic THEN R(g2, <<>>) ELSE R(g2, <<func_idx>>)

\* ContextBuilder::parse_ctx_expr
parse_ctx_expr(G, expr, ctx) ==
    LET G0 == Log(G, Event("expr", expr.loc, ctx, None, None, FALSE)) IN
    CASE expr.k = "Variable"        -> variable(G0, expr, ctx)
      [] expr.k = "NumberLiteral"   -> number_literal(G0, expr.loc, expr.name)
      [] expr.k \in ArithKinds      ->
            op_expr(G0, expr.loc, expr.sub[1], expr.sub[2], ctx, OpOf(expr.k), FALSE)
      [] expr.k \in AssignArithKinds ->
            op_expr(G0, expr.loc, expr.sub[1], expr.sub[2], ctx, OpOf(expr.k), TRUE)
      [] expr.k = "Assign"          -> assign(G0, expr.loc, expr.sub[1], expr.sub[2], ctx)
      [] expr.k = "Type"            -> type_arm(G0, expr.name)
      [] expr.k \in CmpKinds        ->
            cmp(G0, expr.loc, expr.sub[1], OpOf(expr.k), expr.sub[2], ctx)
      [] expr.k = "FunctionCall"    -> function_call(G0, Head(expr.sub), Tail(expr.sub), ctx)
      [] OTHER                      -> R(Panic(G0, "todo"), <<>>)

-----------------------------------------------------------------------------
(* The statement builder. *)

\* ContextVar::maybe_new_from_func_param / maybe_new_from_func_ret: a named
\* declaration yields an initial version, an unnamed one is declined
maybe_new_from_func_param(decl) ==
    IF decl.name = NoName THEN <<>> ELSE <<ContextVar(decl.name, decl.loc)>>

RECURSIVE seed(_, _, _)
\* .for_each over the collected declarations: add the ContextVar the
\* converter yields and attach it to ctx_node by a Variable edge
seed(G, decls, ctx_node) ==
    IF decls = <<>> THEN G
    ELSE LET cvar == maybe_new_from_func_param(G.nodes[Head(decls)])
         IN  IF cvar = <<>> THEN seed(G, Tail(decls), ctx_node)
             ELSE seed(add_edge(add_node(G, cvar[1]), NewIdx(G), ctx_node, "Variable"),
                       Tail(decls), ctx_node)

\* seeding that leaves the return slots out
seed_context_params_only(G, parent, ctx_node) ==
    seed(G, IncomingSources(G, parent, "FunctionParam"), ctx_node)

\* "optionally add named input and named outputs into context": the
\* declarations are the sources of the parent's incoming FunctionParam and
\* FunctionReturn edges, parameters first
seed_context(G, parent, ctx_node) ==
    LET g1 == seed(G, IncomingSources(G, parent, "FunctionParam"), ctx_node)
    IN  seed(g1, IncomingSources(g1, parent, "FunctionReturn"), ctx_node)

\* the parent link drawn from the parent down to the new context
link_parent_reversed(G, ctx_node, parent) ==
    CASE G.nodes[parent].kind = "Function" -> add_edge(G, parent, ctx_node, "Context")
      [] G.nodes[parent].kind = "Context"  -> add_edge(G, parent, ctx_node, "Subcontext")
      [] OTHER                             -> G

\* the parent link tagged Context whatever the parent's kind
link_parent_always_context(G, ctx_node, parent) ==
    CASE G.nodes[parent].kind \in {"Function", "Context"} ->
            add_edge(G, ctx_node, parent, "Context")
      [] OTHER -> G

\* the parent link of a new context
link_parent(G, ctx_node, parent) ==
    CASE G.nodes[parent].kind = "Function" -> add_edge(G, ctx_node, parent, "Context")
      [] G.nodes[parent].kind = "Context"  -> add_edge(G, ctx_node, parent, "Subcontext")
      [] OTHER                             -> G

RECURSIVE parse_ctx_statement(_, _, _)

RECURSIVE parse_statements(_, _, _)
\* statements.iter().for_each(|stmt| self.parse_ctx_statement(stmt, .., Some(ctx_node)))
parse_statements(G, stmts, ctx_node) ==
    IF stmts = <<>> \/ G.panic # NoPanic THEN G
    ELSE parse_statements(parse_ctx_statement(G, Head(stmts), ctx_node), Tail(stmts), ctx_node)

\* the Block arm handing its own parent down to the sub-statements
block_arm_parent_scope(G, stmt, parent_ctx) ==
    LET ctx_node == NewIdx(G)
        g1       == Log(add_node(G, Context_new(stmt.loc)),
                        Event("block", stmt.loc, ctx_node, parent_ctx, None, FALSE))
        g2       == IF parent_ctx # None THEN link_parent(g1, ctx_node, parent_ctx) ELSE g1
        g3       == IF parent_ctx # None THEN seed_context(g2, parent_ctx, ctx_node) ELSE g2
    IN  parse_statements(g3, stmt.statements, parent_ctx)

\* the Block arm
block_arm(G, stmt, parent_ctx) ==
    LET ctx_node == NewIdx(G)
        g1       == Log(add_node(G, Context_new(stmt.loc)),
                        Event("block", stmt.loc, ctx_node, parent_ctx, None, FALSE))
        g2       == IF parent_ctx # None THEN link_parent(g1, ctx_node, parent_ctx) ELSE g1
        g3       == IF parent_ctx # None THEN seed_context(g2, parent_ctx, ctx_node) ELSE g2
    IN  parse_statements(g3, stmt.statements, ctx_node)

\* the Expression arm with the Call edge's endpoints swapped
expression_arm_swapped(G, expr, parent_ctx) ==
    IF parent_ctx = None THEN G
    ELSE LET e == parse_ctx_expr(G, expr, parent_ctx)
         IN  IF e.g.panic # NoPanic \/ e.res = <<>> THEN e.g
             ELSE add_edge(e.g, parent_ctx, e.res[1], "Call")

\* the Expression arm
expression_arm(G, expr, parent_ctx) ==
    IF parent_ctx = None THEN G
    ELSE LET e == parse_ctx_expr(G, expr, parent_ctx)
         IN  IF e.g.panic # NoPanic \/ e.res = <<>> THEN e.g
             ELSE add_edge(e.g, e.res[1], parent_ctx, "Call")

\* the Return arm attaching the first version the scope has under the
\* returned node's name instead of the evaluated node
return_arm_declared(G, maybe_ret_expr, parent_ctx) ==
    IF maybe_ret_expr = <<>> \/ parent_ctx = None THEN G
    ELSE LET e == parse_ctx_expr(G, maybe_ret_expr[1], parent_ctx)
         IN  IF e.g.panic # NoPanic THEN e.g
             ELSE IF e.res = <<>> THEN Panic(e.g, "IndexOutOfBounds")
             ELSE IF var_by_name(e.g, parent_ctx, e.g.nodes[e.res[1]].name) # None
             THEN add_edge(e.g, var_by_name(e.g, parent_ctx, e.g.nodes[e.res[1]].name),
                           parent_ctx, "Return")
             ELSE add_edge(e.g, e.res[1], parent_ctx, "Return")

\* the Return arm
return_arm(G, maybe_ret_expr, parent_ctx) ==
    IF maybe_ret_expr = <<>> \/ parent_ctx = None THEN G
    ELSE LET e == parse_ctx_expr(G, maybe_ret_expr[1], parent_ctx)
         IN  IF e.g.panic # NoPanic THEN e.g
             ELSE IF e.res = <<>> THEN Panic(e.g, "IndexOutOfBounds")
             ELSE add_edge(e.g, e.res[1], parent_ctx, "Return")

\* parse_ctx_statement with a While arm that evaluates the loop condition
parse_ctx_statement_while_cond(G, stmt, parent_ctx) ==
    CASE stmt.k = "Block"      -> block_arm(G, stmt, parent_ctx)
      [] stmt.k = "Expression" -> expression_arm(G, stmt.expr[1], parent_ctx)
      [] stmt.k = "Return"     -> return_arm(G, stmt.expr, parent_ctx)
      [] stmt.k = "While"      -> expression_arm(G, stmt.expr[1], parent_ctx)
      [] stmt.k \in NoOpKinds  -> G

\* ContextBuilder::parse_ctx_statement
parse_ctx_statement(G, stmt, parent_ctx) ==
    CASE stmt.k = "Block"      -> block_arm(G, stmt, parent_ctx)
      [] stmt.k = "Expression" -> expression_arm(G, stmt.expr[1], parent_ctx)
      [] stmt.k = "Return"     -> return_arm(G, stmt.expr, parent_ctx)
      [] stmt.k \in NoOpKinds  -> G

-----------------------------------------------------------------------------
(* The analysed source: the function the graph is built for and the        *)
(* statement and expression trees handed to the builder.                   *)

\* declarations of f, in the order their edges were added
Sigs ==
    { [params |-> <<"x">>, rets |-> <<"y">>],
      [params |-> <<"x", NoName>>, rets |-> <<"y", NoName>>] }

\* the graph before the builder runs: f, its declarations, require and g
FnGraph(sig) ==
    LET np    == Len(sig.params)
        nr    == Len(sig.rets)
        fnode == <<MkNode("Function", "f", 1)>>
        ps    == [i \in 1..np |-> MkNode("FunctionParam", sig.params[i], 1 + i)]
        rs    == [i \in 1..nr |-> MkNode("FunctionReturn", sig.rets[i], 1 + np + i)]
        pe    == [i \in 1..np |-> MkEdge(1 + i, 1, "FunctionParam")]
        re    == [i \in 1..nr |-> MkEdge(1 + np + i, 1, "FunctionReturn")]
    IN  [nodes |-> fnode \o ps \o rs
                   \o <<MkNode("Function", "require", None), MkNode("Function", "g", None)>>,
         edges |-> pe \o re]

Var(name, loc) == Ex("Variable", loc, name, <<>>)

Num(int, loc) == Ex("NumberLiteral", loc, int, <<>>)

Ty(ty, loc) == Ex("Type", loc, ty, <<>>)

\* x = y
XisY == Ex("Assign", 10, NoName, <<Var("x", 11), Var("y", 12)>>)

\* x + 1
XplusOne == Ex("Add", 13, NoName, <<Var("x", 14), Num("1", 15)>>)

\* x = x + 1
XisXplusOne == Ex("Assign", 16, NoName, <<Var("x", 17), XplusOne>>)

\* x = (x = y)
XisXisY == Ex("Assign", 18, NoName, <<Var("x", 19), XisY>>)

\* y = 1
YisOne == Ex("Assign", 20, NoName, <<Var("y", 21), Num("1", 22)>>)

\* x += 1
XaddAssignOne == Ex("AssignAdd", 23, NoName, <<Var("x", 24), Num("1", 25)>>)

\* require(x < 1)
RequireXltOne ==
    Ex("FunctionCall", 26, NoName,
       <<Var("require", 27), Ex("Less", 28, NoName, <<Var("x", 29), Num("1", 30)>>)>>)

\* g(y = 1, uint256)
CallG == Ex("FunctionCall", 31, NoName, <<Var("g", 32), YisOne, Ty("Type::Uint(256)", 33)>>)

\* !x has no arm in the dispatcher
NotX == Ex("Not", 34, NoName, <<Var("x", 35)>>)

\* x = require(x < 1)
XisRequire == Ex("Assign", 36, NoName, <<Var("x", 37), RequireXltOne>>)

Exprs ==
    { XisY, XplusOne, XisXplusOne, XisXisY, YisOne, XaddAssignOne, RequireXltOne, CallG,
      NotX, XisRequire, Var("x", 38),
      Ty("Type::Uint(256)", 40), Ty("Type::Bool", 41), Ty("Type::Mapping", 43) }

ExprStmt(e) == St("Expression", 50, <<e>>, <<>>)

ReturnStmt(e) == St("Return", 51, e, <<>>)

Block(loc, stmts) == St("Block", loc, <<>>, stmts)

\* { x = x + 1; return x; }
FBody == Block(60, <<ExprStmt(XisXplusOne), ReturnStmt(<<Var("x", 61)>>)>>)

\* { { 1; } }
NestedBody == Block(62, <<Block(63, <<ExprStmt(Num("1", 64))>>)>>)

\* { { x = y; } }
NestedWrite == Block(65, <<Block(66, <<ExprStmt(XisY)>>)>>)

\* { while (..) {..} x = y; }
WhileBody == Block(67, <<St("While", 68, <<YisOne>>, <<ExprStmt(YisOne)>>), ExprStmt(XisY)>>)

\* { x = y; !x; }
FailingBody == Block(71, <<ExprStmt(XisY), ExprStmt(NotX)>>)

\* { x = y; x += 1; }
WriteTwice == Block(72, <<ExprStmt(XisY), ExprStmt(XaddAssignOne)>>)

\* { uint256; bool; }
TypesBody ==
    Block(73, <<ExprStmt(Ty("Type::Uint(256)", 74)), ExprStmt(Ty("Type::Bool", 75))>>)

Blocks ==
    {Block(69, <<>>), FBody, NestedBody, NestedWrite, WhileBody, FailingBody, WriteTwice,
     TypesBody}

ReturnExprs == {<<>>, <<Var("x", 61)>>, <<Num("1", 70)>>, <<RequireXltOne>>}

-----------------------------------------------------------------------------
(* The state machine: one action per statement kind handed to              *)
(* parse_ctx_statement, and new_tmp.                                       *)

Cur == MkG(nodes, edges, builtins, NoPanic, <<>>)

Contexts == {i \in 1..Len(nodes) : nodes[i].kind = "Context"}

Finish(g, op, stmt, parent) ==
    /\ Len(g.nodes) <= MaxNodes
    /\ nodes' = g.nodes
    /\ edges' = g.edges
    /\ builtins' = g.builtins
    /\ aborted' = g.panic
    /\ trace' = g.trace
    /\ last' = [op |-> op, stmt |-> stmt, parent |-> parent,
                n0 |-> Len(nodes), e0 |-> Len(edges)]
    /\ steps' = steps + 1

Running == aborted = NoPanic /\ steps < MaxSteps

Init ==
    \E sig \in Sigs :
        /\ nodes = FnGraph(sig).nodes
        /\ edges = FnGraph(sig).edges
        /\ builtins = [b \in Builtins |-> None]
        /\ aborted = NoPanic
        /\ trace = <<>>
        /\ last = [op |-> "init", stmt |-> Block(None, <<>>), parent |-> None,
                   n0 |-> 0, e0 |-> 0]
        /\ steps = 0

\* a block is built: with no parent, for a function, nested in a context,
\* or with a parent of another kind
BuildBlock ==
    /\ Running
    /\ \E stmt \in Blocks, parent \in {None, 1, 2} \cup Contexts :
          Finish(parse_ctx_statement(Cur, stmt, parent), "Block", stmt, parent)

ExpressionStatement ==
    /\ Running
    /\ \E e \in Exprs, parent \in {None} \cup Contexts :
          Finish(parse_ctx_statement(Cur, ExprStmt(e), parent), "Expression", ExprStmt(e), parent)

ReturnStatement ==
    /\ Running
    /\ \E e \in ReturnExprs, parent \in {None} \cup Contexts :
          Finish(parse_ctx_statement(Cur, ReturnStmt(e), parent), "Return", ReturnStmt(e), parent)

NoOpStatement ==
    /\ Running
    /\ \E k \in NoOpKinds, parent \in {None} \cup Contexts :
          Finish(parse_ctx_statement(Cur, St(k, 52, <<XisY>>, <<ExprStmt(XisY)>>), parent),
                 "NoOp", St("NoOp", 52, <<XisY>>, <<ExprStmt(XisY)>>), parent)

NewTmp ==
    /\ Running
    /\ \E ctx \in Contexts :
          Finish(new_tmp(Cur, ctx).g, "new_tmp", Block(None, <<>>), ctx)

Next == BuildBlock \/ ExpressionStatement \/ ReturnStatement \/ NoOpStatement \/ NewTmp

Spec == Init /\ [][Next]_vars

-----------------------------------------------------------------------------
(* Graph vocabulary of the properties. *)

NodeIds == 1..Len(nodes)

ContextVars == {i \in NodeIds : nodes[i].kind = "ContextVar"}

EdgeIds == 1..Len(edges)

\* targets / sources of the edges tagged w that leave / enter v
Out(v, w) == {i \in EdgeIds : edges[i].src = v /\ edges[i].w = w}

In(v, w) == {i \in EdgeIds : edges[i].dst = v /\ edges[i].w = w}

PrevTargets(v) == {edges[i].dst : i \in Out(v, "Prev")}

RECURSIVE PrevWalkEnds(_, _)
\* following Prev from v, having passed `seen`: no node is met twice and
\* the walk stops at a node without an outgoing Prev edge
PrevWalkEnds(v, seen) ==
    \/ PrevTargets(v) = {}
    \/ \A t \in PrevTargets(v) : t \notin (seen \cup {v}) /\ PrevWalkEnds(t, seen \cup {v})

RECURSIVE PrevAncestors(_)
\* the versions met by walking Prev from v, v included
PrevAncestors(v) == {v} \cup UNION {PrevAncestors(t) : t \in PrevTargets(v) \ {v}}

\* the events of the last builder call of one kind
Events(ev) == {i \in 1..Len(trace) : trace[i].ev = ev}

-----------------------------------------------------------------------------
(* C1 *)

\* C1: from every ContextVar node, following Prev edges never revisits a node
\* and ends at a node that has no outgoing Prev edge.
C1_PrevAcyclicTerminates == \A v \in ContextVars : PrevWalkEnds(v, {})

\* a version written twice in a row: a Prev chain of length two
C1_Witness ==
    \E a, b, c \in ContextVars :
        /\ b \in PrevTargets(a)
        /\ c \in PrevTargets(b)
        /\ PrevTargets(c) = {}

-----------------------------------------------------------------------------
(* C2 *)

\* C2: the Prev chain of every variable is a simple path: every ContextVar has
\* at most one outgoing and at most one incoming Prev edge.
C2_PrevSimplePath ==
    \A v \in ContextVars :
        /\ Cardinality(Out(v, "Prev")) <= 1
        /\ Cardinality(In(v, "Prev")) <= 1

-----------------------------------------------------------------------------
(* C3 *)

\* every node and edge of the graph before the step is still there after it,
\* a node unchanged but for a context's counter
Kept ==
    /\ Len(nodes') >= Len(nodes)
    /\ Len(edges') >= Len(edges)
    /\ \A i \in 1..Len(edges) : edges'[i] = edges[i]
    /\ \A i \in 1..Len(nodes) :
          nodes'[i] = [nodes[i] EXCEPT !.tmp_var_ctr = nodes'[i].tmp_var_ctr]

\* every version an assignment of the step created is a node the step
\* inserted, carrying the assignment's location
FreshVersions ==
    \A i \in 1..Len(trace') :
        trace'[i].ev = "assign" =>
            /\ trace'[i].c > Len(nodes)
            /\ trace'[i].c <= Len(nodes')
            /\ nodes'[trace'[i].c].loc = trace'[i].loc

\* C3: the graph is append-only: a builder call, also one that ends in a
\* failure, removes no node and no edge and leaves the name, location and
\* range of every existing node as they were; only the versions it inserts
\* receive the new location and range.
C3_AppendOnly == [][Kept /\ FreshVersions]_vars

\* a build pass that wrote a variable and then failed: the graph has grown
C3_Witness ==
    /\ aborted # NoPanic
    /\ Events("assign") # {}
    /\ Len(nodes) > last.n0
    /\ Len(edges) > last.e0

-----------------------------------------------------------------------------
(* C4 *)

\* C4: an assignment whose right-hand node has no known range installs on the
\* new left-hand version (Dynamic(rhs, Min, loc), Dynamic(rhs, Max, loc)).
C4_DeferredRange ==
    \A i \in Events("assign") :
        ~has_range(Cur, trace[i].b) =>
            /\ nodes[trace[i].c].min = Dynamic(trace[i].b, "Min", trace[i].loc)
            /\ nodes[trace[i].c].max = Dynamic(trace[i].b, "Max", trace[i].loc)

\* x = y has run with y unranged and x's new version is a node of its own
C4_Witness ==
    \E i \in Events("assign") :
        /\ ~has_range(Cur, trace[i].b)
        /\ trace[i].c # trace[i].a
        /\ trace[i].c # trace[i].b
        /\ nodes[trace[i].c].min.t = "Dynamic"

-----------------------------------------------------------------------------
(* C5 *)

\* C5: the builtin table maps each registered type to one Builtin node of
\* that type, every Builtin node is the one its type is registered under (so
\* there is at most one per type and distinct types have distinct ids), and
\* a Type expression-statement yields the registered id, adding at most the
\* one node of a first resolution.
C5_BuiltinInterning ==
    /\ \A b \in Builtins :
          builtins[b] # None =>
              /\ builtins[b] \in NodeIds
              /\ nodes[builtins[b]].kind = "Builtin"
              /\ nodes[builtins[b]].name = b
    /\ \A i \in NodeIds : nodes[i].kind = "Builtin" => builtins[nodes[i].name] = i
    /\ \A b1, b2 \in Builtins :
          (b1 # b2 /\ builtins[b1] # None /\ builtins[b2] # None) => builtins[b1] # builtins[b2]
    /\ ( /\ last.op = "Expression"
         /\ last.stmt.expr[1].k = "Type"
         /\ last.parent # None
         /\ aborted = NoPanic )
       => /\ edges[Len(edges)] =
                 MkEdge(builtins[try_from_ty(last.stmt.expr[1].name)], last.parent, "Call")
          /\ Len(nodes) <= last.n0 + 1

\* uint256 is resolved again, at another call site: no node is added
C5_Witness ==
    /\ last.op = "Expression"
    /\ last.stmt.expr[1] = Ty("Type::Uint(256)", 40)
    /\ last.parent # None
    /\ aborted = NoPanic
    /\ Len(nodes) = last.n0
    /\ builtins["Builtin::Uint(256)"] # None

-----------------------------------------------------------------------------
(* C6 *)

ScopeTags == {"Context", "Subcontext"}

\* the Context nodes the last builder call inserted
NewContexts == {i \in NodeIds : i > last.n0 /\ nodes[i].kind = "Context"}

\* the Context/Subcontext edges at the nodes of cs
ScopeEdgeIds(cs) ==
    {i \in EdgeIds : edges[i].w \in ScopeTags /\ (edges[i].src \in cs \/ edges[i].dst \in cs)}

\* C6: building { { stmt; } } for the function yields exactly two Context
\* nodes, the inner linked to the outer by Subcontext and the outer to the
\* function by Context, with no other Context/Subcontext edge at either.
C6_NestingTopology ==
    ( /\ last.op = "Block"
      /\ last.stmt \in {NestedBody, NestedWrite}
      /\ last.parent = 1 )
    => \E outer, inner \in NewContexts :
          /\ outer # inner
          /\ NewContexts = {outer, inner}
          /\ steps = 1 => Contexts = {outer, inner}
          /\ nodes[outer].loc = last.stmt.loc
          /\ nodes[inner].loc = last.stmt.statements[1].loc
          /\ Cardinality(ScopeEdgeIds({outer, inner})) = 2
          /\ {edges[i] : i \in ScopeEdgeIds({outer, inner})} =
                 {MkEdge(inner, outer, "Subcontext"), MkEdge(outer, 1, "Context")}

\* { { 1; } } has been built for f on the initial graph, to the end
C6_Witness ==
    /\ last.op = "Block"
    /\ last.stmt = NestedBody
    /\ last.parent = 1
    /\ steps = 1
    /\ aborted = NoPanic
    /\ Cardinality(Contexts) = 2

-----------------------------------------------------------------------------
(* C7 *)

\* the declarations whose FunctionParam/FunctionReturn edge enters n and
\* that the converter accepts
AcceptedDecls(n) ==
    {d \in NodeIds :
        /\ nodes[d].name # NoName
        /\ \E i \in EdgeIds :
              /\ edges[i].src = d
              /\ edges[i].dst = n
              /\ edges[i].w \in {"FunctionParam", "FunctionReturn"}}

RECURSIVE EnclosingFn(_)
\* the function a context belongs to, through Subcontext edges up to the
\* Context edge; None when the chain ends without one
EnclosingFn(c) ==
    IF Out(c, "Context") # {} THEN edges[CHOOSE i \in Out(c, "Context") : TRUE].dst
    ELSE IF Out(c, "Subcontext") # {}
    THEN EnclosingFn(edges[CHOOSE i \in Out(c, "Subcontext") : TRUE].dst)
    ELSE None

FnOfParent(p) == IF nodes[p].kind = "Function" THEN p ELSE EnclosingFn(p)

\* the sources of the Variable edges into a context
Attached(c) == {edges[i].src : i \in In(c, "Variable")}

\* C7 as claimed: every block built with a function or a context as parent
\* gets one ContextVar, attached by a Variable edge, for each accepted
\* parameter and return slot of the function.
C7_SeededInEveryScope ==
    \A i \in Events("block") :
        ( /\ trace[i].b # None
          /\ nodes[trace[i].b].kind \in {"Function", "Context"}
          /\ FnOfParent(trace[i].b) # None )
        => \A d \in AcceptedDecls(FnOfParent(trace[i].b)) :
              \E v \in Attached(trace[i].a) :
                  nodes[v].kind = "ContextVar" /\ nodes[v].name = nodes[d].name

\* C7 amended: a block built with a parent gets one fresh ContextVar,
\* attached by a Variable edge, for each accepted declaration whose
\* FunctionParam/FunctionReturn edge enters the parent node itself: the
\* function's named parameters and returns when the parent is the function,
\* none when the parent is a context.
C7_SeededFromParentEdges ==
    \A i \in Events("block") :
        trace[i].b # None =>
            /\ Cardinality(In(trace[i].a, "Variable")) =
                   Cardinality(AcceptedDecls(trace[i].b))
            /\ \A d \in AcceptedDecls(trace[i].b) :
                  \E v \in Attached(trace[i].a) :
                      /\ v > last.n0
                      /\ nodes[v].kind = "ContextVar"
                      /\ nodes[v].name = nodes[d].name
                      /\ nodes[v].loc = nodes[d].loc
                      /\ Cardinality(Out(v, "Variable")) = 1
            /\ nodes[trace[i].b].kind = "Context" => Attached(trace[i].a) = {}

\* one call built a block for f, seeded with f's declarations, and a block
\* nested in it, seeded with nothing
C7_Witness ==
    \E i, j \in Events("block") :
        /\ trace[i].b = 1
        /\ Attached(trace[i].a) # {}
        /\ trace[j].b = trace[i].a
        /\ AcceptedDecls(FnOfParent(trace[j].b)) # {}
        /\ Attached(trace[j].a) = {}

-----------------------------------------------------------------------------
(* C8 *)

Named(name) == {v \in ContextVars : nodes[v].name = name}

AllOut(w) == {i \in EdgeIds : edges[i].w = w}

\* C8: f(uint x) returns (uint y) { x = x + 1; return x; } built from its
\* function node: one Context; the seeded x and y attached to it by Variable
\* edges; x + 1 creates no version of x and the assignment exactly one, whose
\* single Prev edge targets the parameter version; the Return edge into the
\* context comes from that new version.
C8_EndToEnd ==
    ( /\ last.op = "Block"
      /\ last.stmt = FBody
      /\ last.parent = 1
      /\ steps = 1
      /\ AcceptedDecls(1) = {2, 3} )
    => /\ aborted = NoPanic
       /\ \E c \in Contexts, xs, xn, ys \in ContextVars :
             /\ Contexts = {c}
             /\ Out(c, "Context") # {}
             /\ Named("x") = {xs, xn}
             /\ xs # xn
             /\ Named("y") = {ys}
             /\ {edges[i] : i \in AllOut("Variable")} =
                    {MkEdge(xs, c, "Variable"), MkEdge(ys, c, "Variable")}
             /\ Cardinality(AllOut("Variable")) = 2
             /\ Cardinality(AllOut("Prev")) = 1
             /\ {edges[i] : i \in AllOut("Prev")} = {MkEdge(xn, xs, "Prev")}
             /\ Cardinality(AllOut("Return")) = 1
             /\ {edges[i] : i \in AllOut("Return")} = {MkEdge(xn, c, "Return")}

\* the body has been built for f(uint x) returns (uint y) and returned
C8_Witness ==
    /\ last.op = "Block"
    /\ last.stmt = FBody
    /\ last.parent = 1
    /\ steps = 1
    /\ AcceptedDecls(1) = {2, 3}
    /\ AllOut("Return") # {}

-----------------------------------------------------------------------------
(* C9 *)

\* the versions whose Prev walk reaches v, v included
Versions(v) == {u \in ContextVars : v \in PrevAncestors(u)}

Newest(vs) == CHOOSE v \in vs : \A u \in vs : u <= v

\* the names in the graph, and one that is in no scope
Names == {nodes[i].name : i \in NodeIds} \cup {"absent"}

\* the Variable edges into c whose source carries the name
NamedVariableEdges(c, name) ==
    {i \in In(c, "Variable") : nodes[edges[i].src].name = name}

\* C9: once a seeded variable has been written, latest_var_by_name returns
\* the version the most recent write created, the end of the chain, never
\* the seeded version; var_by_name returns the source of the first Variable
\* edge, in incoming-edge iteration order (newest first), whose source has
\* the name, and None when there is none.
C9_LatestAndFirst ==
    \A c \in Contexts, name \in Names :
        /\ ( /\ var_by_name(Cur, c, name) # None
             /\ Versions(var_by_name(Cur, c, name)) # {var_by_name(Cur, c, name)} )
           => /\ latest_var_by_name(Cur, c, name) =
                     Newest(Versions(var_by_name(Cur, c, name)))
              /\ latest_var_by_name(Cur, c, name) # var_by_name(Cur, c, name)
              /\ In(latest_var_by_name(Cur, c, name), "Prev") = {}
        /\ (var_by_name(Cur, c, name) = None) <=> (NamedVariableEdges(c, name) = {})
        /\ var_by_name(Cur, c, name) # None =>
              \E i \in NamedVariableEdges(c, name) :
                  /\ edges[i].src = var_by_name(Cur, c, name)
                  /\ \A j \in NamedVariableEdges(c, name) : j <= i

\* x, seeded as a parameter, has been written twice in its scope
C9_Witness ==
    \E c \in Contexts :
        /\ var_by_name(Cur, c, "x") # None
        /\ Cardinality(Versions(var_by_name(Cur, c, "x"))) >= 3
        /\ latest_var_by_name(Cur, c, "x") # var_by_name(Cur, c, "x")

-----------------------------------------------------------------------------
(* C10 *)

\* v has exactly one outgoing Variable edge, and it enters c
OwnsVariableEdge(v, c) ==
    /\ Cardinality(Out(v, "Variable")) = 1
    /\ \A i \in Out(v, "Variable") : edges[i].dst = c

\* what name-based lookup in c can return
LookupResults(c) ==
    ({var_by_name(Cur, c, name) : name \in Names}
        \cup {latest_var_by_name(Cur, c, name) : name \in Names}) \ {None}

\* C10: every version name-based lookup in a scope can return has exactly
\* one outgoing Variable edge, to that scope, or is linked by its Prev chain
\* to a version that has; the versions advance_var creates have no Variable
\* edge of their own.
C10_LookupMembership ==
    /\ \A c \in Contexts : \A r \in LookupResults(c) :
          \/ OwnsVariableEdge(r, c)
          \/ \E v \in PrevAncestors(r) : OwnsVariableEdge(v, c)
    /\ \A v \in ContextVars : Out(v, "Prev") # {} => Out(v, "Variable") = {}

\* lookup returns a written version, which has no Variable edge of its own
C10_Witness ==
    \E c \in Contexts : \E r \in LookupResults(c) :
        /\ Out(r, "Variable") = {}
        /\ Out(r, "Prev") # {}
        /\ \E v \in PrevAncestors(r) : OwnsVariableEdge(v, c)

-----------------------------------------------------------------------------
(* C11 *)

\* the locations of the expressions the last builder call evaluated, in order
EvalLocs(t) ==
    LET es == SelectSeq(t, LAMBDA e : e.ev = "expr")
    IN  [i \in 1..Len(es) |-> es[i].loc]

\* C11: a statement without semantics (while, if, for, ...) leaves nodes,
\* edges, counters and the builtin table as they were, evaluates none of its
\* sub-expressions and does not abort; the statement after it in the same
\* block is still processed.
C11_NoOpStatements ==
    [][ /\ last'.op = "NoOp" =>
            /\ nodes' = nodes
            /\ edges' = edges
            /\ builtins' = builtins
            /\ trace' = <<>>
            /\ aborted' = NoPanic
        /\ (last'.op = "Block" /\ last'.stmt = WhileBody /\ last'.parent = 1) =>
            /\ aborted' = NoPanic
            /\ EvalLocs(trace') = <<10, 11, 12>>
            /\ Len(nodes') = Len(nodes) + 2 + Cardinality(AcceptedDecls(1))
            /\ \E i \in 1..Len(trace') : trace'[i].ev = "assign" /\ trace'[i].loc = 10
      ]_vars

\* a no-op statement has been processed in a scope that holds variables
C11_Witness ==
    /\ last.op = "NoOp"
    /\ last.parent \in Contexts
    /\ Attached(last.parent) # {}
    /\ steps = 2

-----------------------------------------------------------------------------
(* C12 *)

\* C12: an expression kind without an arm, or a Type that is no builtin,
\* comes back to the caller as a recoverable error: the builder call that
\* meets it does not abort, also when it is the last statement of a block.
C12_UnsupportedIsRecoverable ==
    /\ ( /\ last.op = "Expression"
         /\ last.parent \in Contexts
         /\ last.stmt.expr[1] \in {NotX, Ty("Type::Mapping", 43)} )
       => aborted = NoPanic
    /\ (last.op = "Block" /\ last.stmt = FailingBody /\ last.parent = 1)
       => aborted = NoPanic

-----------------------------------------------------------------------------
(* C13 *)

\* the Return and Prev edges the last builder call added
NewEdgeIds(w) == {i \in EdgeIds : i > last.e0 /\ edges[i].w = w}

\* C13: when the expression of a return statement or an operand of an
\* assignment yields no node (a require call), the operation fails with an
\* error value instead of crashing and adds no Return or Prev edge.
C13_EmptyResultIsError ==
    ( /\ last.parent \in Contexts
      /\ \/ last.stmt = ReturnStmt(<<RequireXltOne>>)
         \/ last.stmt = ExprStmt(XisRequire) )
    => /\ aborted # "IndexOutOfBounds"
       /\ NewEdgeIds("Return") = {}
       /\ NewEdgeIds("Prev") = {}

-----------------------------------------------------------------------------
(* C14 *)

\* the node an expression of the analysed source evaluates to in scope c,
\* read off the graph after the statement
ResultOf(e, c) ==
    CASE e.k = "Assign"       -> trace[Newest(Events("assign"))].c
      [] e.k = "AssignAdd"    -> Len(nodes)
      [] e.k = "Add"          -> Len(nodes)
      [] e.k = "Variable"     -> latest_var_by_name(Cur, c, e.name)
      [] e.k = "Type"         -> builtins[try_from_ty(e.name)]
      [] e.k = "FunctionCall" -> function_by_name(Cur, e.sub[1].name)

\* C14: an expression-statement adds exactly one Call edge, from the first
\* result node to the context, when the evaluation yields a node, and no edge
\* at all when it yields none: a require call, or a statement without parent.
C14_CallEdge ==
    last.op = "Expression" =>
        /\ last.parent = None =>
              Len(edges) = last.e0 /\ Len(nodes) = last.n0 /\ trace = <<>>
        /\ aborted # NoPanic => NewEdgeIds("Call") = {}
        /\ (last.parent # None /\ aborted = NoPanic) =>
              IF last.stmt.expr[1] = RequireXltOne
              THEN Len(edges) = last.e0
              ELSE /\ NewEdgeIds("Call") = {Len(edges)}
                   /\ edges[Len(edges)] =
                          MkEdge(ResultOf(last.stmt.expr[1], last.parent), last.parent, "Call")

\* require(x < 1); has been processed in a scope where x resolves
C14_Witness ==
    /\ last.op = "Expression"
    /\ last.stmt.expr[1] = RequireXltOne
    /\ last.parent \in Contexts
    /\ aborted = NoPanic
    /\ Events("new_tmp") # {}

-----------------------------------------------------------------------------
(* C15 *)

\* the new_tmp calls of a builder call on context c, in order
TmpCalls(t, c) == SelectSeq(t, LAMBDA e : e.ev = "new_tmp" /\ e.a = c)

\* C15: a context's counter starts at 0 and moves only by new_tmp: over any
\* step the counter of each context grows by the number of new_tmp calls made
\* on that context, and those calls return the consecutive values from the
\* counter's old value on (from 0 for a context the step created); so the
\* k-th call on a context returns k-1 and other contexts are not touched.
C15_TmpCounter ==
    [][ \A c \in 1..Len(nodes') :
            nodes'[c].kind = "Context" =>
                LET base  == IF c <= Len(nodes) THEN nodes[c].tmp_var_ctr ELSE 0
                    calls == TmpCalls(trace', c)
                IN  /\ nodes'[c].tmp_var_ctr = base + Len(calls)
                    /\ \A k \in 1..Len(calls) : calls[k].b = base + k - 1
      ]_vars

\* the second id of a context is minted, after x + 1 took the first
C15_Witness ==
    /\ last.op = "new_tmp"
    /\ nodes[last.parent].tmp_var_ctr = 2
    /\ \E i \in Events("new_tmp") : trace[i].a = last.parent /\ trace[i].b = 1

-----------------------------------------------------------------------------
(* C16 *)

\* the assign event of the assignment expression at loc
AssignAt(loc) == {i \in Events("assign") : trace[i].loc = loc}

\* C16: every completed assign made a new version whose location is the
\* assignment's and whose name is the previous version's, linked to it by
\* Prev; when the right-hand node has a range the new version's (min, max) is
\* that very pair and not a reference deferred to the right-hand node.  The
\* single id assign returns is the new version: it is what an enclosing
\* assignment reads as its right-hand node and what an expression statement
\* attaches by its Call edge.
C16_AssignCopiesRange ==
    /\ \A i \in Events("assign") :
          LET ev == trace[i] IN
          /\ ev.c > last.n0 /\ ev.c # ev.a
          /\ nodes[ev.c].kind = "ContextVar"
          /\ nodes[ev.c].loc = ev.loc
          /\ nodes[ev.c].name = nodes[ev.a].name
          /\ \E e \in EdgeIds : edges[e] = MkEdge(ev.c, ev.a, "Prev")
          /\ has_range(Cur, ev.b) =>
                /\ nodes[ev.c].min = nodes[ev.b].min
                /\ nodes[ev.c].max = nodes[ev.b].max
                /\ nodes[ev.c].min # Dynamic(ev.b, "Min", ev.loc)
                /\ nodes[ev.c].max # Dynamic(ev.b, "Max", ev.loc)
    /\ (last.op = "Expression" /\ aborted = NoPanic /\ last.parent # None
         /\ last.stmt.expr[1].k = "Assign") =>
          LET top == last.stmt.expr[1] IN
          /\ Cardinality(AssignAt(top.loc)) = 1
          /\ \A i \in AssignAt(top.loc) :
                /\ \A e \in NewEdgeIds("Call") : edges[e].src = trace[i].c
                /\ Cardinality(NewEdgeIds("Call")) = 1
                /\ top.sub[2].k = "Assign" =>
                      \A j \in AssignAt(top.sub[2].loc) : trace[i].b = trace[j].c

\* y = 1 ran: the literal carries a constant range and the new y has it
C16_Witness ==
    /\ aborted = NoPanic
    /\ \E i \in Events("assign") :
          /\ has_range(Cur, trace[i].b)
          /\ nodes[trace[i].c].min.t = "Concrete"
          /\ nodes[trace[i].a].min = NoElem

-----------------------------------------------------------------------------
(* C17 *)

IsPrefix(p, q) == Len(p) <= Len(q) /\ \A i \in 1..Len(p) : p[i] = q[i]

\* the dispatcher entries of a call statement, in order
CallOrder == <<31, 32, 20, 21, 22, 33>>

\* C17: for the call g(y = 1, uint256) the dispatcher enters the call, then
\* the callee, then the arguments left to right, each once; when it completes
\* both arguments have had their graph effects (a new version of y, the
\* uint256 builtin registered) and the result is the callee's own node, which
\* the statement attaches by its one Call edge.  For require(x < 1) the
\* dispatcher hands all arguments to the assertion handler right after the
\* callee and evaluates none itself: nothing is evaluated between callee and
\* hand-over, and the argument is evaluated once only, by the handler.
C17_CallEvaluationOrder ==
    /\ (last.stmt = ExprStmt(CallG) /\ last.parent # None) =>
          /\ IsPrefix(EvalLocs(trace), CallOrder)
          /\ Len(trace) >= 2
          /\ aborted = NoPanic =>
                /\ EvalLocs(trace) = CallOrder
                /\ Events("handle_require") = {}
                /\ Cardinality(AssignAt(20)) = 1
                /\ builtins["Builtin::Uint(256)"] # None
                /\ NewEdgeIds("Call") = {Len(edges)}
                /\ edges[Len(edges)] =
                       MkEdge(function_by_name(Cur, "g"), last.parent, "Call")
    /\ (last.stmt \in {ExprStmt(RequireXltOne), ReturnStmt(<<RequireXltOne>>)}
         /\ last.parent # None) =>
          /\ IsPrefix(EvalLocs(trace), <<26, 27, 28, 29, 30>>)
          /\ Len(trace) >= 3
          /\ trace[1].ev = "expr" /\ trace[1].loc = 26
          /\ trace[2].ev = "expr" /\ trace[2].loc = 27
          /\ trace[3] = Event("handle_require", None, last.parent, 1, None, FALSE)
          /\ Cardinality(Events("handle_require")) = 1

\* g(y = 1, uint256) ran to completion as a statement of a scope
C17_Witness ==
    /\ last.stmt = ExprStmt(CallG)
    /\ last.parent \in Contexts
    /\ aborted = NoPanic
    /\ EvalLocs(trace) = CallOrder

-----------------------------------------------------------------------------
(* C18 *)

\* what the first sub-statement of a block must leave in the trace right
\* after the block's own event, given the block's context
FirstChildSeen(stmt, ctx_node, t) ==
    LET first == stmt.statements[1] IN
    CASE first.k = "Block" ->
            /\ Len(t) >= 2
            /\ t[2].ev = "block" /\ t[2].loc = first.loc /\ t[2].b = ctx_node
      [] first.k = "Expression" ->
            /\ Len(t) >= 2
            /\ t[2].ev = "expr" /\ t[2].loc = first.expr[1].loc /\ t[2].a = ctx_node
      [] OTHER -> TRUE

\* C18: each visited block allocated one new Context node of its own, at the
\* block's location, whose counter is 0 but for the temporaries minted in it
\* since.  A block without parent, or whose parent is neither a function nor
\* a context, has no outgoing Context or Subcontext edge.  Whatever the
\* parent, the sub-statements run with the new context as their parent: the
\* first sub-statement is entered with it, every expression of the tree is
\* evaluated in a context of the tree, every inner block names one as parent,
\* and the two type statements of { uint256; bool; } both end in a Call edge
\* into the new context.
C18_BlockAllocatesContext ==
    /\ \A i \in Events("block") :
          LET ev == trace[i] IN
          /\ ev.a \in NewContexts
          /\ nodes[ev.a].loc = ev.loc
          /\ nodes[ev.a].tmp_var_ctr = Len(TmpCalls(trace, ev.a))
          /\ \A j \in Events("block") : trace[j].a = ev.a => j = i
          /\ (ev.b = None \/ nodes[ev.b].kind \notin {"Function", "Context"}) =>
                Out(ev.a, "Context") \cup Out(ev.a, "Subcontext") = {}
    /\ last.op = "Block" =>
          /\ Cardinality(NewContexts) = Cardinality(Events("block"))
          /\ trace # <<>>
          /\ trace[1] = Event("block", last.stmt.loc, last.n0 + 1, last.parent, None, FALSE)
          /\ last.stmt.statements # <<>> => FirstChildSeen(last.stmt, last.n0 + 1, trace)
          /\ \A i \in Events("expr") : trace[i].a \in NewContexts
          /\ \A i \in Events("block") : i > 1 => trace[i].b \in NewContexts
          /\ (last.stmt = TypesBody /\ aborted = NoPanic) =>
                Cardinality(In(last.n0 + 1, "Call")) = 2

\* { uint256; bool; } built without a parent: no scope edge, both statements ran
C18_Witness ==
    /\ last.op = "Block"
    /\ last.stmt = TypesBody
    /\ last.parent = None
    /\ aborted = NoPanic
    /\ Cardinality(Events("expr")) = 2
    /\ ScopeEdgeIds({last.n0 + 1}) = {}

-----------------------------------------------------------------------------
(* C19 *)

RECURSIVE VisitedBlocks(_)
\* the block statements the builder visits in a statement tree: the tree's
\* blocks, reached through blocks only
VisitedBlocks(stmt) ==
    IF stmt.k # "Block" THEN {}
    ELSE {stmt.loc}
         \cup UNION {VisitedBlocks(stmt.statements[i]) : i \in 1..Len(stmt.statements)}

RECURSIVE Nesting(_)
\* <<inner, outer>> for each block of the tree directly enclosed by a block
Nesting(stmt) ==
    IF stmt.k # "Block" THEN {}
    ELSE LET subs == {stmt.statements[i] : i \in 1..Len(stmt.statements)}
         IN  {<<b.loc, stmt.loc>> : b \in {t \in subs : t.k = "Block"}}
             \cup UNION {Nesting(t) : t \in subs}

ScopeParents(c) == {edges[i].dst : i \in Out(c, "Context") \cup Out(c, "Subcontext")}

RECURSIVE ScopeWalkEnds(_, _)
\* following Context/Subcontext edges upward from c never meets a node twice
ScopeWalkEnds(c, seen) ==
    \A p \in ScopeParents(c) : p \notin seen \cup {c} /\ ScopeWalkEnds(p, seen \cup {c})

\* C19: the scopes form a forest that mirrors the block nesting.  A builder
\* call that completes adds one Context node per block statement it visited,
\* at that block's location (none for a statement that is not a block), and
\* the Subcontext edges among them are exactly the tree's direct nesting.
\* Over the whole graph, only Context nodes have outgoing Context/Subcontext
\* edges and each has at most one; a Context edge ends at a Function node, a
\* Subcontext edge at a Context node; the walk upward never cycles.
C19_ScopeForest ==
    /\ \A i \in EdgeIds :
          /\ edges[i].w \in ScopeTags    => nodes[edges[i].src].kind = "Context"
          /\ edges[i].w = "Context"    => nodes[edges[i].dst].kind = "Function"
          /\ edges[i].w = "Subcontext" => nodes[edges[i].dst].kind = "Context"
    /\ \A c \in Contexts :
          /\ Cardinality(Out(c, "Context") \cup Out(c, "Subcontext")) <= 1
          /\ ScopeWalkEnds(c, {})
    /\ last.op # "Block" => NewContexts = {}
    /\ last.op = "Block" =>
          /\ {nodes[c].loc : c \in NewContexts} \subseteq VisitedBlocks(last.stmt)
          /\ Cardinality(NewContexts) <= Cardinality(VisitedBlocks(last.stmt))
          /\ aborted = NoPanic =>
                /\ Cardinality(NewContexts) = Cardinality(VisitedBlocks(last.stmt))
                /\ {<<nodes[edges[i].src].loc, nodes[edges[i].dst].loc>> :
                        i \in {j \in EdgeIds : j > last.e0 /\ edges[j].w = "Subcontext"
                                               /\ edges[j].src # last.n0 + 1}}
                   = Nesting(last.stmt)
          /\ \A c \in NewContexts \ {last.n0 + 1} :
                /\ Out(c, "Context") = {}
                /\ ScopeParents(c) \subseteq NewContexts

\* a nested block built inside an earlier scope: a chain of three scopes
\* ending at the function
C19_Witness ==
    /\ last.op = "Block"
    /\ last.stmt \in {NestedBody, NestedWrite}
    /\ last.parent \in Contexts
    /\ Out(last.parent, "Context") # {}
    /\ Cardinality(NewContexts) = 2
    /\ EnclosingFn(last.n0 + 2) = 1

====
